---- MODULE Spec2Model ----
(***************************************************************************)
(* daktilo-tray (src/src/main.rs): a key-listener thread and the tray UI   *)
(* event loop send EventKind messages over one mpsc channel to a worker    *)
(* thread that owns the daktilo App (preset + output sink) and the enabled *)
(* flag.                                                                   *)
(***************************************************************************)
EXTENDS Integers, Sequences, FiniteSets, TLC

VARIABLES
    present,        \* output devices currently plugged in (the platform)
    devices,        \* `devices`: the names audio::get_devices() returned at startup
    state,          \* the UI's State {enabled, current_preset_name, current_device_name}
    init_names,     \* init_preset_name / init_device_name / initial enabled moved into the worker
    preset_checked, \* checked flag of each preset_items[i]
    device_checked, \* checked flag of each device_items[i]
    enable_text,    \* text of enable_menu
    proc,           \* the process: "running", "exiting" (ExitWithCode requested),
                    \* "exited" (terminated), "crashed" (main panicked)
    cache,          \* content of daktilo_tray_cache.toml
    chan,           \* messages in flight in the mpsc channel
    pc,             \* position of the worker thread
    cur,            \* the message the worker has received and is processing
    enabled,        \* the worker's `enabled` local
    app,            \* the worker's `app` local
    newApp,         \* the value of App::init(..) built and not yet assigned to `app`
    nInit,          \* number of App instances built so far
    keysSent,       \* number of key events the listener has produced
    clicks,         \* number of menu events handled
    sentLog,        \* history: every message accepted by the channel, in order
    selLog,         \* history: the UI's State just before each accepted message was sent
    recvLog,        \* history: the messages the worker has received, in order
    calls,          \* history: handle_key_event calls issued, in order
    muted,          \* history: key events received while enabled was false
    lost,           \* history: key events whose send failed or that died in the queue
    failedCfg,      \* history: index in sentLog of the ChangeConfig whose preset lookup or
                    \* App::init failed (0: none)
    polled          \* history: the worker's loop has run on a recv() that returned Err

vars == <<present, state, init_names, devices, preset_checked, device_checked, enable_text,
          proc, cache, chan, pc, cur, enabled, app, newApp, nInit, keysSent, clicks,
          sentLog, selLog, recvLog, calls, muted, lost, failedCfg, polled>>

engineVars == <<pc, cur, enabled, app, newApp, nInit, recvLog, calls, muted, failedCfg, polled>>
uiVars == <<state, preset_checked, device_checked, enable_text, cache>>

\* ---- bounds ------------------------------------------------------------
MaxKeys == 2
MaxClicks == 2

\* ---- the catalog and the platform --------------------------------------
\* EmbeddedConfig::parse().sound_presets, in order
presets == <<"default", "musicbox">>
\* the output devices that exist (names as the platform reports them), the
\* platform's default one, and what audio::get_devices() can return at startup
AllDevices == {"Speakers", "USB Headset"}
DefaultDevice == "Speakers"
DeviceLists == {<<"Speakers", "USB Headset">>, <<"Speakers">>}

SeqRange(s) == {s[i] : i \in 1..Len(s)}

\* str::to_lowercase on the names that occur
to_lowercase(s) ==
    CASE s \in {"Speakers", "SPEAKERS"} -> "speakers"
      [] s \in {"USB Headset", "USB HEADSET"} -> "usb headset"
      [] OTHER -> s

NoApp == [live |-> FALSE, preset |-> "", device |-> "", inst |-> 0]
NoMsg == [kind |-> "None", event |-> 0, preset_name |-> "", device_name |-> "",
          is_enabled |-> FALSE]

KeyEvent(e) == [kind |-> "KeyEvent", event |-> e, preset_name |-> "",
                device_name |-> "", is_enabled |-> FALSE]
ChangeConfig(p, d) == [kind |-> "ChangeConfig", event |-> 0, preset_name |-> p,
                       device_name |-> d, is_enabled |-> FALSE]
Enabled(b) == [kind |-> "Enabled", event |-> 0, preset_name |-> "",
               device_name |-> "", is_enabled |-> b]

\* variant: the name is passed on as received
EngineDeviceArgRaw(device_name) == device_name

\* line 125: Some(device_name.to_lowercase())
EngineDeviceArg(device_name) == to_lowercase(device_name)

\* presets.iter().find(|p| p.name == name): is there such a preset
FindPreset(name) == name \in SeqRange(presets)

\* App::init(preset, None, Some(device_name)): Ok iff some plugged-in output
\* device's lowercased name equals device_name
AppInitOk(device_name, plugged) == \E d \in plugged : to_lowercase(d) = device_name


\* ---- startup (main, lines 47-102) --------------------------------------
NoCache == [exists |-> FALSE, enabled |-> FALSE, current_preset_name |-> "",
            current_device_name |-> ""]
Cached(st) == [exists |-> TRUE, enabled |-> st.enabled,
               current_preset_name |-> st.current_preset_name,
               current_device_name |-> st.current_device_name]

\* what a previous run can have left in the cache file: nothing, or a State
\* it wrote on exit (the device may be one that is no longer enumerated)
CacheChoices ==
    {NoCache,
     Cached([enabled |-> FALSE, current_preset_name |-> "musicbox",
             current_device_name |-> "usb headset"]),
     Cached([enabled |-> TRUE, current_preset_name |-> "default",
             current_device_name |-> "old dac"])}

\* default_host().default_output_device(): the preferred device if it is
\* plugged in, else another plugged-in one
DefaultOf(plugged) ==
    IF DefaultDevice \in plugged THEN DefaultDevice ELSE CHOOSE d \in plugged : TRUE

\* the plugged-in devices in the platform's enumeration order
Enumerate(plugged) ==
    SelectSeq(<<"Speakers", "USB Headset">>, LAMBDA d : d \in plugged)

\* variant: the cached enabled flag is not restored
LoadStateEnabled(c, plugged) ==
    [enabled |-> TRUE,
     current_preset_name |-> IF c.exists THEN c.current_preset_name ELSE "default",
     current_device_name |->
         IF c.exists /\ \E d \in plugged : to_lowercase(d) = c.current_device_name
         THEN c.current_device_name
         ELSE to_lowercase(DefaultOf(plugged))]

\* variant: the default device's name is stored as the platform spells it
LoadStateRawDefault(c, plugged) ==
    IF c.exists
    THEN [enabled |-> c.enabled,
          current_preset_name |-> c.current_preset_name,
          current_device_name |->
              IF \E d \in plugged : to_lowercase(d) = c.current_device_name
              THEN c.current_device_name
              ELSE DefaultOf(plugged)]
    ELSE [enabled |-> TRUE,
          current_preset_name |-> "default",
          current_device_name |-> DefaultOf(plugged)]

\* let mut state = if let Ok(content) = read_to_string(..) {..} else {..}
LoadState(c, plugged) ==
    IF c.exists
    THEN [enabled |-> c.enabled,
          current_preset_name |-> c.current_preset_name,
          current_device_name |->
              IF \E d \in plugged : to_lowercase(d) = c.current_device_name
              THEN c.current_device_name
              ELSE to_lowercase(DefaultOf(plugged))]
    ELSE [enabled |-> TRUE,
          current_preset_name |-> "default",
          current_device_name |-> to_lowercase(DefaultOf(plugged))]

\* .checked(p.name == state.current_preset_name)
PresetItemsInit(st) == [i \in 1..Len(presets) |-> presets[i] = st.current_preset_name]
\* .checked(name.to_lowercase() == state.current_device_name)
DeviceItemsInit(devs, st) ==
    [i \in 1..Len(devs) |-> to_lowercase(devs[i]) = st.current_device_name]
\* MenuItem::new(if state.enabled { "disable" } else { "enable" }, ..)
EnableText(en) == IF en THEN "disable" ELSE "enable"

\* variant: the UI and the worker share one flag
EnabledShared(worker_enabled, state_enabled) == state_enabled

\* let mut enabled = state.enabled: the worker's flag is a copy made at spawn
\* time; later writes to state.enabled do not reach it
EnabledCopied(worker_enabled, state_enabled) == worker_enabled

Init ==
    \E c \in CacheChoices, devs \in DeviceLists :
        /\ devices = devs
        /\ present = SeqRange(devs)
        /\ cache = c
        /\ state = LoadState(c, SeqRange(devs))
        /\ init_names = [preset |-> LoadState(c, SeqRange(devs)).current_preset_name,
                         device |-> LoadState(c, SeqRange(devs)).current_device_name,
                         enabled |-> LoadState(c, SeqRange(devs)).enabled]
        /\ preset_checked = PresetItemsInit(LoadState(c, SeqRange(devs)))
        /\ device_checked = DeviceItemsInit(devs, LoadState(c, SeqRange(devs)))
        /\ enable_text = EnableText(LoadState(c, SeqRange(devs)).enabled)
        /\ enabled = LoadState(c, SeqRange(devs)).enabled   \* line 101
        /\ proc = "running"
        /\ chan = <<>>
        /\ pc = "init"
        /\ cur = NoMsg
        /\ app = NoApp
        /\ newApp = NoApp
        /\ nInit = 0
        /\ keysSent = 0
        /\ clicks = 0
        /\ sentLog = <<>>
        /\ selLog = <<>>
        /\ recvLog = <<>>
        /\ calls = <<>>
        /\ muted = {}
        /\ lost = {}
        /\ failedCfg = 0
        /\ polled = FALSE

\* ---- the process -------------------------------------------------------
\* variant: the spawned threads outlive the event loop's exit
ThreadsRunDetached == proc # "crashed"

\* the spawned threads run while the process lives: until the event loop,
\* told ExitWithCode(0) at line 236, ends the process, or main panics
ThreadsRun == proc \in {"running", "exiting"}

\* ---- the channel -------------------------------------------------------
\* the Receiver lives in the worker thread; it is dropped when that thread
\* unwinds from a panic
RxAlive == pc # "panicked"

KeyIds(q) == {q[i].event : i \in {j \in 1..Len(q) : q[j].kind = "KeyEvent"}}

\* tx.send(m) on a live channel (the channel is unbounded)
Send(m) ==
    /\ chan' = Append(chan, m)
    /\ sentLog' = Append(sentLog, m)
    /\ selLog' = Append(selLog, state)

\* variant: the newest message is returned first
RecvIndexLast(q) == Len(q)

\* rx.recv() returns the oldest message
RecvIndex(q) == 1
RemoveAt(q, i) == [j \in 1..(Len(q) - 1) |-> IF j < i THEN q[j] ELSE q[j + 1]]

\* ---- the worker thread (lines 103-133) ---------------------------------
\* a panic unwinds the worker: `app` (and a half-built replacement) and the
\* Receiver are dropped, and with the Receiver every message still queued
Panic ==
    /\ pc' = "panicked"
    /\ cur' = NoMsg
    /\ app' = NoApp
    /\ newApp' = NoApp
    /\ chan' = <<>>
    /\ lost' = lost \cup KeyIds(chan)

\* lines 104-108: find(init_preset_name).unwrap(); App::init(..).unwrap()
EngineInit ==
    /\ ThreadsRun
    /\ pc = "init"
    /\ IF FindPreset(init_names.preset) /\ AppInitOk(init_names.device, present)
       THEN /\ app' = [live |-> TRUE, preset |-> init_names.preset,
                       device |-> init_names.device, inst |-> nInit + 1]
            /\ nInit' = nInit + 1
            /\ pc' = "recv"
            /\ UNCHANGED <<cur, newApp, chan, lost>>
       ELSE /\ Panic
            /\ UNCHANGED nInit
    /\ UNCHANGED <<present, uiVars, init_names, devices, proc, enabled, keysSent, clicks,
                   sentLog, selLog, recvLog, calls, muted, failedCfg, polled>>

\* variant: every Sender has been dropped while the worker runs
SendersDropped == FALSE

\* the channel's Senders: `tx` stays in main's frame, which event_loop.run
\* never leaves, tx1 is owned by the listener and tx2 by the event loop
\* closure; while the process lives at least `tx` and tx2 exist
SendersAlive == TRUE

\* rx.recv(): Ok(oldest message); with the queue empty it blocks while a
\* Sender exists and returns Err once none does
RecvResult(q) ==
    IF q # <<>> THEN "Ok" ELSE IF SendersAlive THEN "Block" ELSE "Err"

\* lines 110 and 128-130: rx.recv(); the Err arm logs and loops again
EngineRecv ==
    /\ ThreadsRun
    /\ pc = "recv"
    /\ RecvResult(chan) # "Block"
    /\ IF RecvResult(chan) = "Ok"
       THEN /\ cur' = chan[RecvIndex(chan)]
            /\ chan' = RemoveAt(chan, RecvIndex(chan))
            /\ recvLog' = Append(recvLog, chan[RecvIndex(chan)])
            /\ pc' = "handle"
            /\ UNCHANGED polled
       ELSE /\ polled' = TRUE
            /\ UNCHANGED <<cur, chan, recvLog, pc>>
    /\ UNCHANGED <<present, uiVars, init_names, devices, proc, enabled, app, newApp, nInit,
                   keysSent, clicks, sentLog, selLog, calls, muted, lost,
                   failedCfg>>

\* variant: the enabled flag is not consulted
ShouldPlayAlways(en) == TRUE

\* line 112: if enabled { .. }
ShouldPlay(en) == en

\* lines 111-115: KeyEvent arm; handle_key_event(..).unwrap() panics on Err
EngineKeyEvent ==
    /\ ThreadsRun
    /\ pc = "handle"
    /\ cur.kind = "KeyEvent"
    /\ IF ShouldPlay(enabled)
       THEN /\ calls' = Append(calls, [event |-> cur.event, preset |-> app.preset,
                                       device |-> app.device, inst |-> app.inst,
                                       live |-> app.live, enabled |-> enabled])
            /\ \E ok \in BOOLEAN :
                   IF ok
                   THEN /\ pc' = "recv"
                        /\ cur' = NoMsg
                        /\ UNCHANGED <<app, newApp, chan, lost>>
                   ELSE Panic
            /\ UNCHANGED muted
       ELSE /\ muted' = muted \cup {cur.event}
            /\ pc' = "recv"
            /\ cur' = NoMsg
            /\ UNCHANGED <<calls, app, newApp, chan, lost>>
    /\ UNCHANGED <<present, uiVars, init_names, devices, proc, enabled, nInit, keysSent,
                   clicks, sentLog, selLog, recvLog, failedCfg, polled>>

\* lines 120-125, right-hand side: find(preset_name).unwrap(), then
\* App::init(preset, None, Some(device_name.to_lowercase())).unwrap();
\* the old `app` is still alive while the new one is built
EngineChangeConfigBuild ==
    /\ ThreadsRun
    /\ pc = "handle"
    /\ cur.kind = "ChangeConfig"
    /\ IF FindPreset(cur.preset_name)
          /\ AppInitOk(EngineDeviceArg(cur.device_name), present)
       THEN /\ newApp' = [live |-> TRUE, preset |-> cur.preset_name,
                          device |-> EngineDeviceArg(cur.device_name),
                          inst |-> nInit + 1]
            /\ nInit' = nInit + 1
            /\ pc' = "swap"
            /\ UNCHANGED <<cur, app, chan, lost, failedCfg>>
       ELSE /\ Panic
            /\ failedCfg' = Len(recvLog)
            /\ UNCHANGED nInit
    /\ UNCHANGED <<present, uiVars, init_names, devices, proc, enabled, keysSent, clicks,
                   sentLog, selLog, recvLog, calls, muted, polled>>

\* variant: the new App is dropped and the old one kept
AssignAppKeepOld(old, new) == old

\* line 124: `app = <new>` moves the new App in and drops the old one
AssignApp(old, new) == new

EngineChangeConfigSwap ==
    /\ ThreadsRun
    /\ pc = "swap"
    /\ app' = AssignApp(app, newApp)
    /\ newApp' = NoApp
    /\ cur' = NoMsg
    /\ pc' = "recv"
    /\ UNCHANGED <<present, uiVars, init_names, devices, proc, chan, enabled, nInit, keysSent,
                   clicks, sentLog, selLog, recvLog, calls, muted, lost,
                   failedCfg, polled>>

\* variant: the message's value is not stored
SetEnabledIgnored(old, is_enabled) == old

\* line 127: Ok(EventKind::Enabled(is_enabled)) => enabled = is_enabled
SetEnabled(old, is_enabled) == is_enabled

EngineEnabled ==
    /\ ThreadsRun
    /\ pc = "handle"
    /\ cur.kind = "Enabled"
    /\ enabled' = SetEnabled(enabled, cur.is_enabled)
    /\ cur' = NoMsg
    /\ pc' = "recv"
    /\ UNCHANGED <<present, uiVars, init_names, devices, proc, chan, app, newApp, nInit,
                   keysSent, clicks, sentLog, selLog, recvLog, calls, muted,
                   lost, failedCfg, polled>>

\* ---- the key listener thread (lines 88-95) ------------------------------
\* tx1.send(KeyEvent(event)).unwrap_or_else(|e| error!(..)): a failed send
\* (Receiver gone) is logged and the event is gone
KeyListen ==
    /\ ThreadsRun
    /\ keysSent < MaxKeys
    /\ keysSent' = keysSent + 1
    /\ IF RxAlive
       THEN /\ Send(KeyEvent(keysSent + 1))
            /\ UNCHANGED lost
       ELSE /\ lost' = lost \cup {keysSent + 1}
            /\ UNCHANGED <<chan, sentLog, selLog>>
    /\ UNCHANGED <<present, uiVars, init_names, devices, proc, engineVars, clicks>>

\* ---- the UI event loop (lines 211-273) ---------------------------------
\* tx2.send(m).unwrap(): the main thread panics when the Receiver is gone
SendOrCrash(m) ==
    IF RxAlive
    THEN /\ Send(m)
         /\ UNCHANGED proc
    ELSE /\ proc' = "crashed"
         /\ UNCHANGED <<chan, sentLog, selLog>>

\* lines 213-232: the enable/disable item
ClickEnable ==
    /\ proc = "running"
    /\ clicks < MaxClicks
    /\ clicks' = clicks + 1
    /\ state' = [state EXCEPT !.enabled = ~state.enabled]
    /\ enable_text' = IF state.enabled THEN "enable" ELSE "disable"
    /\ SendOrCrash(Enabled(state'.enabled))
    /\ enabled' = EnabledCopied(enabled, state'.enabled)
    /\ UNCHANGED <<present, init_names, devices, preset_checked, device_checked, cache, pc, cur,
                   app, newApp, nInit, recvLog, calls, muted, failedCfg, polled, lost, keysSent>>

\* lines 234-236: the exit item writes the cache and asks the event loop to
\* exit; nothing is sent to the worker (EventKind has no such message)
ClickExit ==
    /\ proc = "running"
    /\ cache' = Cached(state)
    /\ proc' = "exiting"
    /\ UNCHANGED <<present, state, init_names, devices, preset_checked, device_checked,
                   enable_text, chan, engineVars, keysSent, clicks, sentLog, selLog,
                   lost>>

\* variant: the clicked item is checked and no other item is unchecked
CheckedAfterNoUncheck(checked, i, sent) ==
    [j \in DOMAIN checked |-> checked[j] \/ (sent /\ j = i)]

\* preset_items / device_items .for_each: items before the clicked one get
\* set_checked(false); at the clicked one the State is written and the message
\* sent before set_checked(true); when the send panics the rest is not reached
CheckedAfter(checked, i, sent) ==
    [j \in DOMAIN checked |-> IF sent THEN j = i
                              ELSE IF j < i THEN FALSE ELSE checked[j]]

\* lines 240-253: a preset item
ClickPreset(i) ==
    /\ proc = "running"
    /\ clicks < MaxClicks
    /\ clicks' = clicks + 1
    /\ state' = [state EXCEPT !.current_preset_name = presets[i]]
    /\ SendOrCrash(ChangeConfig(state'.current_preset_name, state'.current_device_name))
    /\ preset_checked' = CheckedAfter(preset_checked, i, RxAlive)
    /\ UNCHANGED <<present, init_names, devices, device_checked, enable_text, cache, engineVars,
                   lost, keysSent>>

\* lines 255-267: a device item
ClickDevice(i) ==
    /\ proc = "running"
    /\ i \in 1..Len(devices)
    /\ clicks < MaxClicks
    /\ clicks' = clicks + 1
    /\ state' = [state EXCEPT !.current_device_name = to_lowercase(devices[i])]
    /\ SendOrCrash(ChangeConfig(state'.current_preset_name, state'.current_device_name))
    /\ device_checked' = CheckedAfter(device_checked, i, RxAlive)
    /\ UNCHANGED <<present, init_names, devices, preset_checked, enable_text, cache, engineVars,
                   lost, keysSent>>

\* line 236: the event loop, having seen ControlFlow::ExitWithCode(0), ends
\* the process and with it the listener and the worker; no destructor runs
ProcessExit ==
    /\ proc = "exiting"
    /\ proc' = "exited"
    /\ UNCHANGED <<present, uiVars, init_names, devices, chan, engineVars, keysSent,
                   clicks, sentLog, selLog, lost>>

\* ---- the platform ------------------------------------------------------
\* an output device is unplugged or plugged back in while the program runs
Unplug(d) ==
    /\ proc # "crashed"
    /\ d \in present
    /\ present' = present \ {d}
    /\ UNCHANGED <<uiVars, init_names, devices, proc, chan, engineVars, keysSent, clicks,
                   sentLog, selLog, lost>>

Plug(d) ==
    /\ proc # "crashed"
    /\ d \notin present
    /\ present' = present \cup {d}
    /\ UNCHANGED <<uiVars, init_names, devices, proc, chan, engineVars, keysSent, clicks,
                   sentLog, selLog, lost>>

\* ---- the next run ------------------------------------------------------
\* the user starts the program again after it has exited: main runs from the
\* top (lines 47-102) with the cache file the previous run left and the
\* devices plugged in now; default_output_device().unwrap() needs a device
Restart ==
    /\ proc = "exited"
    /\ present # {}
    /\ devices' = Enumerate(present)
    /\ state' = LoadState(cache, present)
    /\ init_names' = [preset |-> LoadState(cache, present).current_preset_name,
                      device |-> LoadState(cache, present).current_device_name,
                      enabled |-> LoadState(cache, present).enabled]
    /\ preset_checked' = PresetItemsInit(LoadState(cache, present))
    /\ device_checked' = DeviceItemsInit(Enumerate(present), LoadState(cache, present))
    /\ enable_text' = EnableText(LoadState(cache, present).enabled)
    /\ enabled' = LoadState(cache, present).enabled
    /\ proc' = "running"
    /\ chan' = <<>>
    /\ pc' = "init"
    /\ cur' = NoMsg
    /\ app' = NoApp
    /\ newApp' = NoApp
    /\ nInit' = 0
    /\ sentLog' = <<>>
    /\ selLog' = <<>>
    /\ recvLog' = <<>>
    /\ calls' = <<>>
    /\ muted' = {}
    /\ lost' = {}
    /\ failedCfg' = 0
    /\ polled' = FALSE
    /\ UNCHANGED <<present, cache, keysSent, clicks>>

Next ==
    \/ EngineInit
    \/ EngineRecv
    \/ EngineKeyEvent
    \/ EngineChangeConfigBuild
    \/ EngineChangeConfigSwap
    \/ EngineEnabled
    \/ KeyListen
    \/ ClickEnable
    \/ ClickExit
    \/ ProcessExit
    \/ \E i \in 1..Len(presets) : ClickPreset(i)
    \/ \E i \in 1..Cardinality(AllDevices) : ClickDevice(i)
    \/ \E d \in AllDevices : Unplug(d)
    \/ \E d \in AllDevices : Plug(d)

Spec == Init /\ [][Next]_vars

\* several runs of the program, one after the other, with the menu used and
\* no key pressed
NextRestart ==
    \/ EngineInit
    \/ EngineRecv
    \/ EngineChangeConfigBuild
    \/ EngineChangeConfigSwap
    \/ EngineEnabled
    \/ ClickEnable
    \/ ClickExit
    \/ ProcessExit
    \/ Restart
    \/ \E i \in 1..Len(presets) : ClickPreset(i)
    \/ \E i \in 1..Cardinality(AllDevices) : ClickDevice(i)
    \/ \E d \in AllDevices : Unplug(d)
    \/ \E d \in AllDevices : Plug(d)

SpecRestart == Init /\ [][NextRestart]_vars

\* ---- helpers for the properties -----------------------------------------
CallIds == {calls[i].event : i \in 1..Len(calls)}
Handled == CallIds \cup muted
IsPrefix(a, b) == Len(a) <= Len(b) /\ \A i \in 1..Len(a) : a[i] = b[i]

\* the ChangeConfig being processed cannot be applied: its preset is not in
\* the catalog or its device cannot be opened
CfgFails ==
    /\ pc = "handle"
    /\ cur.kind = "ChangeConfig"
    /\ ~(FindPreset(cur.preset_name)
         /\ AppInitOk(EngineDeviceArg(cur.device_name), present))

\* the worker takes a step (every worker step moves pc)
WorkerStep == pc' # pc

\* ---- C1 ----------------------------------------------------------------
\* C1: messages are received in the order they arrived at the channel; key
\* events are received in the order the listener sent them (event numbers
\* are assigned in send order), none is skipped, handle_key_event
\* calls are issued in that order, and when a key event has been received
\* every key event received before it has already been processed (played or
\* muted).
C1_OrderPreserved ==
    /\ IsPrefix(recvLog, sentLog)
    /\ \A i, j \in 1..Len(recvLog) :
           (i < j /\ recvLog[i].kind = "KeyEvent" /\ recvLog[j].kind = "KeyEvent")
               => /\ recvLog[i].event < recvLog[j].event
                  /\ recvLog[i].event \in Handled
    /\ \A e \in KeyIds(recvLog) : \A e1 \in 1..(e - 1) : e1 \in KeyIds(recvLog)
    /\ \A i, j \in 1..Len(calls) : i < j => calls[i].event < calls[j].event

\* two key events sent back to back were both queued, then played in order
C1_Witness ==
    /\ Len(calls) = 2
    /\ calls[1].event = 1
    /\ calls[2].event = 2
    /\ \E k \in 1..(Len(sentLog) - 1) :
           sentLog[k].kind = "KeyEvent" /\ sentLog[k + 1].kind = "KeyEvent"

\* ---- C2 ----------------------------------------------------------------
\* C2: every handle_key_event call was issued with the enabled flag true; a
\* key event received while the flag was false is never among the calls,
\* also after the flag is true again.
C2_DisabledMute ==
    /\ \A i \in 1..Len(calls) : calls[i].enabled
    /\ muted \cap CallIds = {}
    /\ muted \subseteq KeyIds(recvLog)

\* key event 1 was muted, Enabled(true) was processed, key event 2 was played
C2_Witness ==
    /\ muted = {1}
    /\ Len(calls) = 1
    /\ calls[1].event = 2
    /\ enabled
    /\ \E k \in 1..Len(recvLog) : recvLog[k].kind = "Enabled" /\ recvLog[k].is_enabled

\* ---- C3 ----------------------------------------------------------------
\* C3: the step that ends a ChangeConfig that cannot be applied leaves `app`
\* (active preset and device) as it was, and the step that ends one that can
\* be applied makes `app` exactly the requested preset and device.
C3_AtomicReconfig ==
    [][ /\ (CfgFails /\ WorkerStep) => app' = app
        /\ (pc = "swap" /\ WorkerStep)
               => /\ app'.live
                  /\ app'.preset = cur.preset_name
                  /\ app'.device = cur.device_name ]_vars

\* ---- C4 ----------------------------------------------------------------
\* C4: once a ChangeConfig has failed, the worker is still running and still
\* holds an App to play the following key events with.
C4_FailedConfigRecoverable ==
    failedCfg # 0 => (pc # "panicked" /\ app.live)

\* ---- C5 ----------------------------------------------------------------
\* C5: no key event the listener sent is lost: each is still queued, is being
\* processed, or has been processed (played once, or muted by the gate).
C5_NoKeyEventDropped ==
    /\ lost = {}
    /\ \A e \in 1..keysSent :
           \/ e \in KeyIds(chan)
           \/ cur.kind = "KeyEvent" /\ cur.event = e
           \/ e \in Handled
    /\ \A i, j \in 1..Len(calls) : i # j => calls[i].event # calls[j].event

\* ---- C6 ----------------------------------------------------------------
Max(S) == CHOOSE x \in S : \A y \in S : y <= x
\* position of key event e in the order of arrival at the channel
Pos(e) == CHOOSE k \in 1..Len(sentLog) : sentLog[k] = KeyEvent(e)
\* the configuration requested by the last ChangeConfig that arrived before
\* position k, or the initial one
CfgBefore(k) ==
    LET S == {j \in 1..(k - 1) : sentLog[j].kind = "ChangeConfig"}
    IN  IF S = {}
        THEN [preset |-> init_names.preset, device |-> init_names.device]
        ELSE [preset |-> sentLog[Max(S)].preset_name,
              device |-> sentLog[Max(S)].device_name]

\* C6: every handle_key_event call is made on a live App whose preset and
\* device are those of the last ChangeConfig that arrived before the key
\* event (the initial ones if there is none): never an older configuration,
\* never one that arrived after the key event.
C6_ConfigInArrivalOrder ==
    \A i \in 1..Len(calls) :
        /\ calls[i].live
        /\ [preset |-> calls[i].preset, device |-> calls[i].device]
               = CfgBefore(Pos(calls[i].event))

\* key event 1 arrived before a ChangeConfig and key event 2 after it, and
\* the two were played with different configurations
C6_Witness ==
    /\ Len(calls) = 2
    /\ <<calls[1].preset, calls[1].device>> # <<calls[2].preset, calls[2].device>>
    /\ \E k \in 1..Len(sentLog) :
           /\ sentLog[k].kind = "ChangeConfig"
           /\ Pos(1) < k
           /\ k < Pos(2)

\* ---- C7 ----------------------------------------------------------------
\* C7: while a ChangeConfig is processed the old App is released only by
\* being replaced with a new App that was already built, and whenever the
\* worker is at or past its first recv an App exists.
C7_BuildBeforeSwap ==
    /\ [][ (cur.kind = "ChangeConfig" /\ app.live /\ app' # app)
               => (newApp.live /\ app' = newApp) ]_vars
    /\ [](pc \in {"recv", "handle", "swap"} => app.live)

\* ---- C8 ----------------------------------------------------------------
\* the value of the last Enabled message received, or the initial flag
LastEnabled ==
    LET S == {j \in 1..Len(recvLog) : recvLog[j].kind = "Enabled"}
    IN  IF S = {} THEN init_names.enabled ELSE recvLog[Max(S)].is_enabled

\* C8: the step that processes Enabled(b) sets enabled to b and leaves the
\* App (preset, device, sink instance) unchanged, and every key event is
\* gated by the value of the last Enabled message received before it.
C8_EnabledFrame ==
    /\ [][ (pc = "handle" /\ cur.kind = "Enabled" /\ WorkerStep)
               => /\ enabled' = cur.is_enabled
                  /\ app' = app
                  /\ newApp' = newApp ]_vars
    /\ []((pc = "recv" \/ (pc = "handle" /\ cur.kind = "KeyEvent"))
              => enabled = LastEnabled)

\* an Enabled message that flips the flag has just been processed, with the
\* App built at startup still in place
C8_Witness ==
    /\ pc = "recv"
    /\ Len(recvLog) > 0
    /\ recvLog[Len(recvLog)].kind = "Enabled"
    /\ enabled = recvLog[Len(recvLog)].is_enabled
    /\ enabled # init_names.enabled
    /\ app.live
    /\ app.inst = 1

\* ---- C9 ----------------------------------------------------------------
\* a step of the key listener or of the UI event loop
ProducerStep ==
    \/ KeyListen
    \/ ClickEnable
    \/ ClickExit
    \/ \E i \in 1..Len(presets) : ClickPreset(i)
    \/ \E i \in 1..Cardinality(AllDevices) : ClickDevice(i)

\* C9: no step of the key listener or of the UI changes the worker's state
\* (position, current message, enabled flag, App); such a step leaves the
\* channel alone or appends one message to it.
C9_EngineStateOwned ==
    [][ ProducerStep
            => /\ UNCHANGED <<pc, cur, enabled, app, newApp>>
               /\ \/ chan' = chan
                  \/ /\ Len(chan') = Len(chan) + 1
                     /\ SubSeq(chan', 1, Len(chan)) = chan ]_vars

\* the UI has toggled its own State.enabled and queued the message while the
\* worker, with its App, still has the old flag
C9_Witness ==
    /\ app.live
    /\ state.enabled # enabled
    /\ Len(chan) > 0
    /\ chan[Len(chan)].kind = "Enabled"
    /\ keysSent > 0

\* ---- C10 ---------------------------------------------------------------
\* C10: when a ChangeConfig fails, the UI's selection is the one it had
\* before it sent that request.
C10_UiKeepsSelectionOnFailure ==
    [][ (CfgFails /\ WorkerStep)
            => /\ state'.current_preset_name
                      = selLog[Len(recvLog)].current_preset_name
               /\ state'.current_device_name
                      = selLog[Len(recvLog)].current_device_name ]_vars

CaseGroups == {{"Speakers", "SPEAKERS", "speakers"},
               {"USB Headset", "USB HEADSET", "usb headset"}}
DeviceSpellings == UNION CaseGroups
DifferOnlyInCase(a, b) == \E g \in CaseGroups : a \in g /\ b \in g

\* the worker, idle with its first App, finds queued: a ChangeConfig, a key
\* event, a second ChangeConfig and a second key event; the device names of
\* the two ChangeConfigs are any two spellings, the plugged-in devices any set
InitCase ==
    \E n1 \in DeviceSpellings, n2 \in DeviceSpellings,
       p \in SeqRange(presets), plugged \in SUBSET AllDevices :
        /\ present = plugged
        /\ devices = <<"Speakers", "USB Headset">>
        /\ state = [enabled |-> TRUE, current_preset_name |-> p,
                    current_device_name |-> to_lowercase(n2)]
        /\ init_names = [preset |-> "default", device |-> "speakers", enabled |-> TRUE]
        /\ preset_checked = [i \in 1..Len(presets) |-> presets[i] = p]
        /\ device_checked = DeviceItemsInit(<<"Speakers", "USB Headset">>,
                                            [current_device_name |-> to_lowercase(n2)])
        /\ enable_text = EnableText(TRUE)
        /\ enabled = TRUE
        /\ proc = "running"
        /\ cache = NoCache
        /\ chan = <<ChangeConfig(p, n1), KeyEvent(1), ChangeConfig(p, n2), KeyEvent(2)>>
        /\ sentLog = <<ChangeConfig(p, n1), KeyEvent(1), ChangeConfig(p, n2), KeyEvent(2)>>
        /\ selLog = [i \in 1..4 |-> [enabled |-> TRUE, current_preset_name |-> p,
                                     current_device_name |-> to_lowercase(n2)]]
        /\ pc = "recv"
        /\ cur = NoMsg
        /\ app = [live |-> TRUE, preset |-> "default", device |-> "speakers", inst |-> 1]
        /\ newApp = NoApp
        /\ nInit = 1
        /\ keysSent = MaxKeys
        /\ clicks = MaxClicks
        /\ recvLog = <<>>
        /\ calls = <<>>
        /\ muted = {}
        /\ lost = {}
        /\ failedCfg = 0
        /\ polled = FALSE

NextCase ==
    \/ EngineRecv
    \/ EngineKeyEvent
    \/ EngineChangeConfigBuild
    \/ EngineChangeConfigSwap

SpecCase == InitCase /\ [][NextCase]_vars

\* C13: when the device names of two ChangeConfig messages differ only in
\* letter case, the Apps built for them are bound to the same device (the
\* key events played after each go to the same device), and the second is
\* never refused after the first was accepted.
C13_CaseInsensitive ==
    DifferOnlyInCase(sentLog[1].device_name, sentLog[3].device_name)
        => /\ Len(calls) = 2 => calls[1].device = calls[2].device
           /\ failedCfg # 3

\* two ChangeConfigs spelled "USB Headset" and "usb headset" were both
\* applied and both key events went to the same device
C13_Witness ==
    /\ sentLog[1].device_name = "USB Headset"
    /\ sentLog[3].device_name = "usb headset"
    /\ Len(calls) = 2
    /\ calls[1].inst = 2
    /\ calls[2].inst = 3
    /\ calls[1].device = calls[2].device

\* ---- C14 ---------------------------------------------------------------
\* the lowercased names of the given devices, spelled out
LowerNames(plugged) ==
    {n \in {"speakers", "usb headset"} :
        \/ n = "speakers" /\ "Speakers" \in plugged
        \/ n = "usb headset" /\ "USB Headset" \in plugged}

\* C14: from the exit command on, the cache holds the UI's State (enabled,
\* preset name, device name) as it was last selected; the next run starts
\* with that preset and that enabled flag, and with that device when it is
\* still plugged in; and the worker's first App is built from exactly the
\* names the run started with.
C14_PersistenceRoundTrip ==
    /\ []((proc = "exiting" \/ proc = "exited")
              => /\ cache.exists
                 /\ cache.enabled = state.enabled
                 /\ cache.current_preset_name = state.current_preset_name
                 /\ cache.current_device_name = state.current_device_name)
    /\ [][ (proc = "exited" /\ proc' = "running")
               => /\ init_names'.preset = state.current_preset_name
                  /\ init_names'.enabled = state.enabled
                  /\ enabled' = state.enabled
                  /\ state.current_device_name \in LowerNames(present)
                         => init_names'.device = state.current_device_name ]_vars
    /\ []((app.live /\ app.inst = 1)
              => (app.preset = init_names.preset /\ app.device = init_names.device))

\* after two menu clicks, exit and a new start, the worker runs with the
\* selection the previous run ended with
C14_Witness ==
    /\ proc = "running"
    /\ clicks = 2
    /\ sentLog = <<>>
    /\ app.live
    /\ app.preset = "musicbox"
    /\ app.device = "usb headset"
    /\ enabled
    /\ cache = [exists |-> TRUE, enabled |-> TRUE, current_preset_name |-> "musicbox",
                current_device_name |-> "usb headset"]

\* ---- C17 ---------------------------------------------------------------
\* the lowercased name of the platform's default device among those
\* enumerated, spelled out
LowerDefault(plugged) == IF "Speakers" \in plugged THEN "speakers" ELSE "usb headset"

\* C17: while a run has not rewritten the cache, the names and the flag it
\* started with are: with no cache, (true, "default", lowercased default
\* device); with a cache, the cached preset and flag, and the cached device
\* if it is the lowercased name of an enumerated device, else the lowercased
\* default device.
C17_StartupState ==
    (proc = "running" \/ proc = "crashed")
        => IF ~cache.exists
           THEN init_names = [preset |-> "default",
                              device |-> LowerDefault(SeqRange(devices)),
                              enabled |-> TRUE]
           ELSE /\ init_names.preset = cache.current_preset_name
                /\ init_names.enabled = cache.enabled
                /\ init_names.device =
                       IF cache.current_device_name \in LowerNames(SeqRange(devices))
                       THEN cache.current_device_name
                       ELSE LowerDefault(SeqRange(devices))

\* a run started from a cache naming a device that is not enumerated: the
\* default device replaced it, preset and flag were kept
C17_Witness ==
    /\ proc = "running"
    /\ cache.exists
    /\ cache.current_device_name \notin LowerNames(SeqRange(devices))
    /\ init_names.device = "speakers"
    /\ init_names.preset = cache.current_preset_name
    /\ init_names.enabled = cache.enabled
    /\ app.live

\* ---- C15 ---------------------------------------------------------------
\* no ChangeConfig is waiting in the channel or being processed
NoConfigPending ==
    /\ \A k \in 1..Len(chan) : chan[k].kind # "ChangeConfig"
    /\ cur = NoMsg \/ cur.kind # "ChangeConfig"

\* C15: once the worker has received a ChangeConfig and none is waiting or
\* being processed, the worker's App has the preset and the device the UI's
\* State names.
C15_EngineMatchesUi ==
    (/\ proc = "running"
     /\ \E k \in 1..Len(recvLog) : recvLog[k].kind = "ChangeConfig"
     /\ NoConfigPending)
        => /\ app.live
           /\ app.preset = state.current_preset_name
           /\ app.device = state.current_device_name

\* ---- C16 ---------------------------------------------------------------
\* no Enabled message is waiting in the channel or being processed
NoEnabledPending ==
    /\ \A k \in 1..Len(chan) : chan[k].kind # "Enabled"
    /\ cur = NoMsg \/ cur.kind # "Enabled"

\* C16: while the program runs and no Enabled message is waiting or being
\* processed, the worker's enabled flag equals the UI's State.enabled, and
\* the menu text shows that value.
C16_EnabledInSync ==
    (proc = "running" /\ NoEnabledPending)
        => /\ enabled = state.enabled
           /\ enable_text = (IF state.enabled THEN "disable" ELSE "enable")

\* ---- C18 ---------------------------------------------------------------
\* exactly item i of a submenu is checked
OnlyChecked(checked, i) == \A j \in DOMAIN checked : checked[j] <=> (j = i)

\* C18: a menu click that sent a ChangeConfig was a click on one preset item
\* or on one device item. After a preset click exactly that preset item is
\* checked, State.current_preset_name is its name, and the device submenu and
\* State.current_device_name are as before; after a device click exactly
\* that device item is checked, State.current_device_name is its lowercased
\* text, and the preset submenu and State.current_preset_name are as before.
\* The message sent carries State's two names.
C18_OneItemChecked ==
    [][ (/\ Len(sentLog') = Len(sentLog) + 1
         /\ sentLog'[Len(sentLog')].kind = "ChangeConfig")
            => /\ \/ \E i \in 1..Len(presets) :
                        /\ OnlyChecked(preset_checked', i)
                        /\ state'.current_preset_name = presets[i]
                        /\ device_checked' = device_checked
                        /\ state'.current_device_name = state.current_device_name
                  \/ \E i \in 1..Len(devices) :
                        /\ OnlyChecked(device_checked', i)
                        /\ state'.current_device_name = to_lowercase(devices[i])
                        /\ preset_checked' = preset_checked
                        /\ state'.current_preset_name = state.current_preset_name
               /\ sentLog'[Len(sentLog')].preset_name = state'.current_preset_name
               /\ sentLog'[Len(sentLog')].device_name = state'.current_device_name
               /\ state'.enabled = state.enabled ]_vars

\* a run that started with (default, speakers) checked, after a click on the
\* second preset item and a click on the second device item
C18_Witness ==
    /\ proc = "running"
    /\ init_names.preset = "default"
    /\ init_names.device = "speakers"
    /\ devices = <<"Speakers", "USB Headset">>
    /\ Len(sentLog) = 2
    /\ preset_checked = <<FALSE, TRUE>>
    /\ device_checked = <<FALSE, TRUE>>
    /\ state.current_preset_name = "musicbox"
    /\ state.current_device_name = "usb headset"

====
